---- MODULE Spec2Model ----
(***************************************************************************)
(* Model of the e-mail verification engine of main.go: validateEmail,      *)
(* checkMXRecord, checkSMTPDeliverable and isDisposableEmail.              *)
(*                                                                         *)
(* Strings are sequences of one-character strings, so that strings.Split,  *)
(* strings.ToLower, strings.TrimSuffix and the structural pattern are      *)
(* computed character by character.  DNS and the remote mail server are    *)
(* the environment: every lookup answer and every server reply is chosen   *)
(* nondeterministically.  validateEmail is cut at its blocking network     *)
(* operations, one action per operation.                                   *)
(***************************************************************************)
EXTENDS Integers, Sequences, FiniteSets, TLC

(* ------------------------------ bounds -------------------------------- *)

\* longest username part of a generated input
MaxUserLen == 2
\* largest number of "@" characters in a generated input
MaxAt == 2
\* largest number of MX records in a DNS answer, and of distinct priorities
MaxMX == 3

(* ------------------------------ characters ---------------------------- *)

UpperSeq == <<"A", "B", "C", "D", "E", "F", "G", "H", "I", "J", "K", "L", "M",
              "N", "O", "P", "Q", "R", "S", "T", "U", "V", "W", "X", "Y", "Z">>

LowerSeq == <<"a", "b", "c", "d", "e", "f", "g", "h", "i", "j", "k", "l", "m",
              "n", "o", "p", "q", "r", "s", "t", "u", "v", "w", "x", "y", "z">>

DigitSeq == <<"0", "1", "2", "3", "4", "5", "6", "7", "8", "9">>

Range(s) == {s[i] : i \in 1..Len(s)}

\* [a-zA-Z]
AlphaClass == Range(UpperSeq) \cup Range(LowerSeq)

\* [a-zA-Z0-9._%+-]
UserClass == AlphaClass \cup Range(DigitSeq) \cup {".", "_", "%", "+", "-"}

\* [a-zA-Z0-9.-]
DomainClass == AlphaClass \cup Range(DigitSeq) \cup {".", "-"}

(* ------------------------------ strings ------------------------------- *)

\* number of occurrences of character c in s
Count(s, c) == Cardinality({i \in 1..Len(s) : s[i] = c})

\* index of the first occurrence of c in s (s contains c)
IndexOf(s, c) == CHOOSE i \in 1..Len(s) : s[i] = c /\ \A j \in 1..(i - 1) : s[j] # c

\* strings.Split(s, sep) for a one-character separator: the substrings
\* between the separators, Count(s, sep) + 1 of them
RECURSIVE Split(_, _)
Split(s, sep) ==
    IF Count(s, sep) = 0
    THEN <<s>>
    ELSE LET i == IndexOf(s, sep)
         IN  <<SubSeq(s, 1, i - 1)>> \o Split(SubSeq(s, i + 1, Len(s)), sep)

\* strings.ToLower on one character
ToLowerChar(c) ==
    IF c \in Range(UpperSeq)
    THEN LowerSeq[CHOOSE i \in 1..Len(UpperSeq) : UpperSeq[i] = c]
    ELSE c

\* strings.ToLower
ToLower(s) == [i \in 1..Len(s) |-> ToLowerChar(s[i])]

\* strings.TrimSuffix(s, "."): one trailing dot is removed
TrimSuffixDot(s) ==
    IF Len(s) > 0 /\ s[Len(s)] = "." THEN SubSeq(s, 1, Len(s) - 1) ELSE s

\* whether every character of s[from..to] is in class
AllIn(s, from, to, class) == \A k \in from..to : s[k] \in class

\* emailRegex.MatchString:  ^[a-zA-Z0-9._%+-]+@[a-zA-Z0-9.-]+\.[a-zA-Z]{2,}$
\* i is the position of the "@" and j of the "\." of the pattern
emailRegexMatch(s) ==
    \E i \in 1..Len(s) : \E j \in 1..Len(s) :
        /\ s[i] = "@"
        /\ s[j] = "."
        /\ i >= 2
        /\ AllIn(s, 1, i - 1, UserClass)
        /\ j >= i + 2
        /\ AllIn(s, i + 1, j - 1, DomainClass)
        /\ Len(s) - j >= 2
        /\ AllIn(s, j + 1, Len(s), AlphaClass)

(* ------------------------------ registry ------------------------------ *)

disposableDomains ==
    << <<"1", "0", "m", "i", "n", "u", "t", "e", "m", "a", "i", "l", ".", "c", "o", "m">>,
       <<"g", "u", "e", "r", "r", "i", "l", "l", "a", "m", "a", "i", "l", ".", "c", "o", "m">>,
       <<"m", "a", "i", "l", "i", "n", "a", "t", "o", "r", ".", "c", "o", "m">>,
       <<"t", "e", "m", "p", "m", "a", "i", "l", ".", "o", "r", "g">>,
       <<"t", "h", "r", "o", "w", "a", "w", "a", "y", ".", "e", "m", "a", "i", "l">>,
       <<"t", "e", "m", "p", "-", "m", "a", "i", "l", ".", "o", "r", "g">> >>

\* a plausible slip: the registry entry is accepted as a suffix of the domain
isDisposableEmailSuffix(domain) ==
    LET d == ToLower(domain)
    IN  \E k \in 1..Len(disposableDomains) :
            LET e == disposableDomains[k]
            IN  /\ Len(d) >= Len(e)
                /\ SubSeq(d, Len(d) - Len(e) + 1, Len(d)) = e

\* isDisposableEmail: the lower-cased domain is compared with every entry
isDisposableEmail(domain) ==
    LET d == ToLower(domain)
    IN  \E k \in 1..Len(disposableDomains) : d = disposableDomains[k]

(* ------------------------------ inputs -------------------------------- *)

UserChars == {"u", "!"}

RECURSIVE StringsUpTo(_, _)
StringsUpTo(chars, n) ==
    IF n = 0
    THEN {<<>>}
    ELSE LET shorter == StringsUpTo(chars, n - 1)
         IN  shorter \cup {Append(s, c) : s \in shorter, c \in chars}

UserInputs == StringsUpTo(UserChars, MaxUserLen)

DomainInputs ==
    {  <<"m", "a", "i", "l", "i", "n", "a", "t", "o", "r", ".", "c", "o", "m">>,
       <<"M", "a", "i", "l", "I", "n", "a", "t", "o", "r", ".", "C", "O", "M">>,
       <<"m", "a", "i", "l", ".", "m", "a", "i", "l", "i", "n", "a", "t", "o", "r", ".", "c", "o", "m">>,
       <<"m", "a", "i", "l", "i", "n", "a", "t", "o", "r", ".", "c", "o">>,
       <<"e", "x", "a", "m", "p", "l", "e", ".", "c", "o", "m">>,
       <<"t", "e", "m", "p", "-", "m", "a", "i", "l", ".", "o", "r", "g">>,
       <<"1", "0", "m", "i", "n", "u", "t", "e", "m", "a", "i", "l", ".", "c", "o", "m">>,
       <<"m", "a", "i", "l", "i", "n", "a", "t", "o", "r", ".", "c">>,
       <<"m", "a", "i", "l", "i", "n", "a", "t", "o", "r">>,
       <<>>,
       <<"m", "a", "i", "l", "i", "n", "a", "t", "o", "r", ".", "c", "o", "m", ".">>,
       <<"m", "a", "i", "l", "!", "n", "a", "t", "o", "r", ".", "c", "o", "m">>,
       <<".", "c", "o", "m">>,
       <<"m", "a", "i", "l", "i", "n", "a", "t", "o", "r", ".", "c", "0", "m">>  }

\* n copies of "@"
Ats(n) == [i \in 1..n |-> "@"]

\* the strings handed to validateEmail: a user part, 0..MaxAt "@", a domain part
Emails == {u \o Ats(n) \o d : u \in UserInputs, n \in 0..MaxAt, d \in DomainInputs}

(* ------------------------------ DNS ----------------------------------- *)

\* the MX record of priority 10 * k; net.LookupMX gives host names with the
\* trailing dot of a fully-qualified name
MXRecord(k) == [Host |-> <<"m", "x", DigitSeq[k + 1], ".">>, Pref |-> 10 * k]

\* sequences of distinct elements of S, of length n
DistinctSeqs(S, n) ==
    {s \in [1..n -> S] : \A i \in 1..n : \A j \in 1..n : i # j => s[i] # s[j]}

\* the answer sections a name server may send: up to MaxMX records in any order
RawAnswers ==
    UNION {{[i \in 1..n |-> MXRecord(ks[i])] : ks \in DistinctSeqs(1..MaxMX, n)} : n \in 0..MaxMX}

\* what one DNS exchange may produce: a failure (NXDOMAIN, timeout, network
\* error) or an answer section, possibly empty
DNSOutcomes ==
    {[fail |-> TRUE, recs |-> <<>>]} \cup {[fail |-> FALSE, recs |-> r] : r \in RawAnswers}

\* r inserted into the ascending sequence s
RECURSIVE InsertByPref(_, _)
InsertByPref(s, r) ==
    IF s = <<>> THEN <<r>>
    ELSE IF r.Pref < Head(s).Pref THEN <<r>> \o s
    ELSE <<Head(s)>> \o InsertByPref(Tail(s), r)

\* a plausible slip: the records are used in the order the server sent them
SortByPrefUnsorted(recs) == recs

\* net.LookupMX returns the records sorted by preference
RECURSIVE SortByPref(_)
SortByPref(recs) ==
    IF recs = <<>> THEN <<>>
    ELSE InsertByPref(SortByPref(SubSeq(recs, 1, Len(recs) - 1)), recs[Len(recs)])

\* net.LookupMX(domain) on a DNS outcome: (records, err)
LookupMX(o) ==
    IF o.fail THEN [records |-> <<>>, err |-> TRUE]
    ELSE [records |-> SortByPref(o.recs), err |-> FALSE]

\* checkMXRecord: err == nil
checkMXRecord(o) == ~LookupMX(o).err

\* how the first lookup ended, kept for the record
LookupKind(o) ==
    IF LookupMX(o).err THEN "error"
    ELSE IF LookupMX(o).records = <<>> THEN "empty"
    ELSE "records"

(* ------------------------------ SMTP ---------------------------------- *)

\* reply codes the server may send
Codes == {220, 221, 250, 251, 450, 550}

NoReply == [kind |-> "none", code |-> 0]

DropReply == [kind |-> "drop", code |-> 0]

\* what reading one reply may produce: a reply with a code, a line that is
\* no SMTP reply, the connection dropped, or nothing at all
Replies ==
    {[kind |-> "code", code |-> c] : c \in Codes} \cup
    {[kind |-> "malformed", code |-> 0], DropReply, [kind |-> "hang", code |-> 0]}

\* once the peer has dropped the connection every further read fails
ReplyChoices(gone) == IF gone THEN {DropReply} ELSE Replies

\* textproto.Reader.ReadResponse(expectCode): a one-digit expectCode matches
\* the first digit, a two-digit one the first two, a three-digit one the code
ExpectOK(code, expectCode) ==
    ~ \/ (1 <= expectCode /\ expectCode < 10 /\ code \div 100 # expectCode)
      \/ (10 <= expectCode /\ expectCode < 100 /\ code \div 10 # expectCode)
      \/ (100 <= expectCode /\ expectCode < 1000 /\ code # expectCode)

\* Client.cmd: err == nil
CmdOK(r, expectCode) == r.kind = "code" /\ ExpectOK(r.code, expectCode)

\* a plausible slip: only the exact code 250 is taken as acceptance
RcptOKExact(r) == CmdOK(r, 250)

\* client.Rcpt(email): err == nil; Rcpt expects a 25x reply
RcptOK(r) == CmdOK(r, 25)

\* a plausible slip: the error of client.Hello is not checked
AfterHelloUnchecked(ok) == "mail"

\* where checkSMTPDeliverable goes after client.Hello
AfterHello(ok) == IF ok THEN "mail" ELSE "quit"

(* ------------------------------ results ------------------------------- *)

\* the EmailResult struct
EmailResult(address, user, dom, hostEx, deliv, disp) ==
    [Address |-> address, Username |-> user, Domain |-> dom,
     HostExists |-> hostEx, Deliverable |-> deliv, FullInbox |-> FALSE,
     CatchAll |-> FALSE, Disposable |-> disp, Gravatar |-> FALSE]

\* the result for an input that does not split into two parts
MalformedResult(e) == EmailResult(e, <<>>, <<>>, FALSE, FALSE, FALSE)

\* a plausible slip: the registry is consulted for a rejected address too
SyntaxFailResultWithRegistry(e, user, dom) ==
    EmailResult(e, user, dom, FALSE, FALSE, isDisposableEmail(dom))

\* the result for an input that fails the pattern
SyntaxFailResult(e, user, dom) == EmailResult(e, user, dom, FALSE, FALSE, FALSE)

\* a plausible slip: the host counts as existing only if the probe succeeded
FinalResultHostFromProbe(e, user, dom, hostEx, deliv) ==
    EmailResult(e, user, dom, hostEx /\ deliv, deliv, isDisposableEmail(dom))

\* a plausible slip: the registry is consulted only for an existing host
FinalResultRegistryIfHost(e, user, dom, hostEx, deliv) ==
    EmailResult(e, user, dom, hostEx, deliv, hostEx /\ isDisposableEmail(dom))

\* the result of a syntactically valid input
FinalResult(e, user, dom, hostEx, deliv) ==
    EmailResult(e, user, dom, hostEx, deliv, isDisposableEmail(dom))

(* ------------------------------ state --------------------------------- *)

VARIABLES
    email,       \* the argument of validateEmail
    pc,          \* where the call is
    username,    \* parts[0]
    domain,      \* parts[1]
    hostExists,  \* the local of validateEmail
    deliverable, \* the local of validateEmail
    result,      \* the EmailResult returned
    mx1,         \* how the lookup of checkMXRecord ended
    lookups,     \* calls of net.LookupMX in this call
    probeCalls,  \* calls of checkSMTPDeliverable in this call
    dials,       \* calls of net.DialTimeout in this call
    probe        \* the locals of checkSMTPDeliverable and the wire

vars == <<email, pc, username, domain, hostExists, deliverable, result, mx1,
          lookups, probeCalls, dials, probe>>

NoResult == EmailResult(<<>>, <<>>, <<>>, FALSE, FALSE, FALSE)

\* checkSMTPDeliverable before it runs
NoProbe ==
    [answer     |-> <<>>,     \* the answer section of the probe's own lookup
     mxHost     |-> <<>>,     \* the host dialled
     conn       |-> "none",   \* the transport connection: none, open, closed
     closes     |-> 0,        \* Close calls on the transport connection
     client     |-> FALSE,    \* smtp.NewClient returned a client
     helloError |-> FALSE,    \* Client.helloError is set
     peerGone   |-> FALSE,    \* the server dropped the connection
     steps      |-> <<>>,     \* the steps of the probe, in order
     succeeded  |-> <<>>,     \* the steps that ended without an error
     cmds       |-> <<>>,     \* the SMTP commands written, in order
     rcptReply  |-> NoReply,  \* the reply to RCPT TO
     ret        |-> FALSE]    \* the value checkSMTPDeliverable returns

Init ==
    /\ email = <<>>
    /\ pc = "idle"
    /\ username = <<>>
    /\ domain = <<>>
    /\ hostExists = FALSE
    /\ deliverable = FALSE
    /\ result = NoResult
    /\ mx1 = "none"
    /\ lookups = 0
    /\ probeCalls = 0
    /\ dials = 0
    /\ probe = NoProbe

(* ------------------------------ handlers ------------------------------- *)

\* validateEmailJSONHandler, validateEmailXMLHandler: a request arrives and
\* validateEmail is called with the address of its path (the echo handlers
\* hand on every path parameter; the net/http handlers answer 400 to an
\* empty one and hand on every other)
Request ==
    /\ pc = "idle"
    /\ email' \in Emails
    /\ pc' = "start"
    /\ UNCHANGED <<username, domain, hostExists, deliverable, result, mx1, lookups,
                   probeCalls, dials, probe>>

(* ------------------------------ validateEmail -------------------------- *)

\* validateEmail up to the pattern check: the split, the two early returns
Validate ==
    /\ pc = "start"
    /\ LET parts == Split(email, "@")
       IN  IF Len(parts) # 2
           THEN /\ result' = MalformedResult(email)
                /\ pc' = "done"
                /\ UNCHANGED <<username, domain>>
           ELSE /\ username' = parts[1]
                /\ domain' = parts[2]
                /\ IF ~emailRegexMatch(email)
                   THEN /\ result' = SyntaxFailResult(email, parts[1], parts[2])
                        /\ pc' = "done"
                   ELSE /\ result' = result
                        /\ pc' = "checkMX"
    /\ UNCHANGED <<email, hostExists, deliverable, mx1, lookups, probeCalls, dials, probe>>

\* hostExists := checkMXRecord(domain); the probe is called only if it is true
CheckMX ==
    /\ pc = "checkMX"
    /\ \E o \in DNSOutcomes :
        /\ hostExists' = checkMXRecord(o)
        /\ mx1' = LookupKind(o)
        /\ pc' = IF checkMXRecord(o) THEN "probeLookup" ELSE "assemble"
    /\ lookups' = lookups + 1
    /\ UNCHANGED <<email, username, domain, deliverable, result, probeCalls, dials, probe>>

\* the disposable check and the result of a syntactically valid input
Assemble ==
    /\ pc = "assemble"
    /\ result' = FinalResult(email, username, domain, hostExists, deliverable)
    /\ pc' = "done"
    /\ UNCHANGED <<email, username, domain, hostExists, deliverable, mx1, lookups,
                   probeCalls, dials, probe>>

\* the handler has written the result; the locals of the call are gone
Respond ==
    /\ pc = "done"
    /\ pc' = "idle"
    /\ email' = <<>>
    /\ username' = <<>>
    /\ domain' = <<>>
    /\ hostExists' = FALSE
    /\ deliverable' = FALSE
    /\ result' = NoResult
    /\ mx1' = "none"
    /\ lookups' = 0
    /\ probeCalls' = 0
    /\ dials' = 0
    /\ probe' = NoProbe

(* ------------------------------ checkSMTPDeliverable ------------------- *)

\* checkSMTPDeliverable returns v to validateEmail
Return(p, v) ==
    /\ probe' = [p EXCEPT !.ret = v]
    /\ deliverable' = v
    /\ pc' = "assemble"

\* the probe's own lookup, and the choice of the first record's host
ProbeLookup ==
    /\ pc = "probeLookup"
    /\ probeCalls' = probeCalls + 1
    /\ lookups' = lookups + 1
    /\ \E o \in DNSOutcomes :
        LET mxRecords == LookupMX(o).records
            p == [probe EXCEPT !.answer = o.recs]
        IN  IF LookupMX(o).err \/ Len(mxRecords) = 0
            THEN Return(p, FALSE)
            ELSE /\ probe' = [p EXCEPT !.mxHost = TrimSuffixDot(mxRecords[1].Host)]
                 /\ pc' = "dial"
                 /\ UNCHANGED deliverable
    /\ UNCHANGED <<email, username, domain, hostExists, result, mx1, dials>>

\* net.DialTimeout to mxHost:25, bounded by the 10 s timeout
Dial ==
    /\ pc = "dial"
    /\ dials' = dials + 1
    /\ \E outcome \in {"connected", "refused", "timeout"} :
        LET p == [probe EXCEPT !.steps = Append(@, "Connect")]
        IN  IF outcome = "connected"
            THEN /\ probe' = [p EXCEPT !.conn = "open", !.succeeded = Append(@, "Connect")]
                 /\ pc' = "newClient"
                 /\ UNCHANGED deliverable
            ELSE Return(p, FALSE)
    /\ UNCHANGED <<email, username, domain, hostExists, result, mx1, lookups, probeCalls>>

\* a read with no deadline on which the server sends nothing: the call stays here
Block(p) ==
    /\ probe' = p
    /\ pc' = "blocked"

\* smtp.NewClient reads the server's banner and expects 220; on an error it
\* closes the connection itself (text.Close) and no client exists, so only
\* the deferred conn.Close is left to run
NewClient ==
    /\ pc = "newClient"
    /\ \E r \in ReplyChoices(probe.peerGone) :
        IF r.kind = "hang"
        THEN Block(probe)
        ELSE IF CmdOK(r, 220)
        THEN /\ probe' = [probe EXCEPT !.client = TRUE]
             /\ pc' = "hello"
        ELSE /\ probe' = [probe EXCEPT !.conn = "closed", !.closes = @ + 1,
                                       !.peerGone = (r.kind = "drop"), !.ret = FALSE]
             /\ pc' = "connClose"
    /\ UNCHANGED <<email, username, domain, hostExists, deliverable, result, mx1,
                   lookups, probeCalls, dials>>

\* client.Hello: EHLO, and HELO if EHLO is not answered 250; the error of the
\* HELO is kept as helloError
Hello ==
    /\ pc = "hello"
    /\ LET p0 == [probe EXCEPT !.steps = Append(@, "Greeting"), !.cmds = Append(@, "EHLO")]
       IN  \E r1 \in ReplyChoices(p0.peerGone) :
            IF r1.kind = "hang"
            THEN Block(p0)
            ELSE IF CmdOK(r1, 250)
            THEN /\ probe' = [p0 EXCEPT !.succeeded = Append(@, "Greeting")]
                 /\ pc' = AfterHello(TRUE)
            ELSE LET p1 == [p0 EXCEPT !.cmds = Append(@, "HELO"),
                                      !.peerGone = (r1.kind = "drop")]
                 IN  \E r2 \in ReplyChoices(p1.peerGone) :
                        IF r2.kind = "hang"
                        THEN Block(p1)
                        ELSE IF CmdOK(r2, 250)
                        THEN /\ probe' = [p1 EXCEPT !.succeeded = Append(@, "Greeting")]
                             /\ pc' = AfterHello(TRUE)
                        ELSE /\ probe' = [p1 EXCEPT !.helloError = TRUE,
                                                    !.peerGone = (r2.kind = "drop"),
                                                    !.ret = FALSE]
                             /\ pc' = AfterHello(FALSE)
    /\ UNCHANGED <<email, username, domain, hostExists, deliverable, result, mx1,
                   lookups, probeCalls, dials>>

\* client.Mail(sourceAddr): nothing is written if the greeting had failed;
\* MAIL FROM expects 250
Mail ==
    /\ pc = "mail"
    /\ LET p0 == [probe EXCEPT !.steps = Append(@, "Sender")]
       IN  IF p0.helloError
           THEN /\ probe' = [p0 EXCEPT !.ret = FALSE]
                /\ pc' = "quit"
           ELSE LET p1 == [p0 EXCEPT !.cmds = Append(@, "MAIL")]
                IN  \E r \in ReplyChoices(p1.peerGone) :
                       IF r.kind = "hang"
                       THEN Block(p1)
                       ELSE IF CmdOK(r, 250)
                       THEN /\ probe' = [p1 EXCEPT !.succeeded = Append(@, "Sender")]
                            /\ pc' = "rcpt"
                       ELSE /\ probe' = [p1 EXCEPT !.peerGone = (r.kind = "drop"),
                                                   !.ret = FALSE]
                            /\ pc' = "quit"
    /\ UNCHANGED <<email, username, domain, hostExists, deliverable, result, mx1,
                   lookups, probeCalls, dials>>

\* client.Rcpt(email); the probe returns err == nil
Rcpt ==
    /\ pc = "rcpt"
    /\ LET p0 == [probe EXCEPT !.steps = Append(@, "Recipient"), !.cmds = Append(@, "RCPT")]
       IN  \E r \in ReplyChoices(p0.peerGone) :
            IF r.kind = "hang"
            THEN Block([p0 EXCEPT !.rcptReply = r])
            ELSE /\ probe' = [p0 EXCEPT !.rcptReply = r,
                                        !.peerGone = (r.kind = "drop"),
                                        !.succeeded = IF RcptOK(r) THEN Append(@, "Recipient") ELSE @,
                                        !.ret = RcptOK(r)]
                 /\ pc' = "quit"
    /\ UNCHANGED <<email, username, domain, hostExists, deliverable, result, mx1,
                   lookups, probeCalls, dials>>

\* the deferred client.Quit(): QUIT expects 221, and then Quit closes the
\* connection (Text.Close).  After a failed greeting Quit returns the
\* helloError without writing, or, in the releases that ignore it, goes on
Quit ==
    /\ pc = "quit"
    /\ \E goOn \in BOOLEAN :
        IF probe.helloError /\ ~goOn
        THEN /\ probe' = probe
             /\ pc' = "connClose"
        ELSE LET p0 == [probe EXCEPT !.cmds = Append(@, "QUIT")]
             IN  \E r \in ReplyChoices(p0.peerGone) :
                    IF r.kind = "hang"
                    THEN Block(p0)
                    ELSE IF CmdOK(r, 221)
                    THEN /\ probe' = [p0 EXCEPT !.conn = "closed", !.closes = @ + 1]
                         /\ pc' = "connClose"
                    ELSE /\ probe' = [p0 EXCEPT !.peerGone = (r.kind = "drop")]
                         /\ pc' = "connClose"
    /\ UNCHANGED <<email, username, domain, hostExists, deliverable, result, mx1,
                   lookups, probeCalls, dials>>

\* the deferred conn.Close(), and the return to validateEmail
ConnClose ==
    /\ pc = "connClose"
    /\ probe' = [probe EXCEPT !.conn = "closed", !.closes = @ + 1]
    /\ deliverable' = probe.ret
    /\ pc' = "assemble"
    /\ UNCHANGED <<email, username, domain, hostExists, result, mx1, lookups,
                   probeCalls, dials>>

(* ------------------------------ specification -------------------------- *)

Next ==
    \/ Request
    \/ Validate
    \/ CheckMX
    \/ ProbeLookup
    \/ Dial
    \/ NewClient
    \/ Hello
    \/ Mail
    \/ Rcpt
    \/ Quit
    \/ ConnClose
    \/ Assemble
    \/ Respond

Spec == Init /\ [][Next]_vars

\* the steps of the goroutine that serves a request
Serve ==
    \/ Validate
    \/ CheckMX
    \/ ProbeLookup
    \/ Dial
    \/ NewClient
    \/ Hello
    \/ Mail
    \/ Rcpt
    \/ Quit
    \/ ConnClose
    \/ Assemble
    \/ Respond

\* the goroutine serving a request is scheduled as long as it can run; a
\* lookup and a dial end by themselves (resolver timeout, DialTimeout), a
\* read of a reply only if the server sends one or drops the connection
FairSpec == Spec /\ WF_vars(Serve)

(* ------------------------------ properties ----------------------------- *)

\* validateEmail has returned
Returned == pc = "done"

\* checkSMTPDeliverable was called and has returned
ProbeReturned == probeCalls = 1 /\ pc \in {"assemble", "done"}

\* exactly one "@" and the structural pattern
SyntaxValid(e) == Count(e, "@") = 1 /\ emailRegexMatch(e)

\* what follows the first "@"
DomainOf(e) == SubSeq(e, IndexOf(e, "@") + 1, Len(e))

AllBooleansFalse(r) ==
    /\ ~r.HostExists
    /\ ~r.Deliverable
    /\ ~r.FullInbox
    /\ ~r.CatchAll
    /\ ~r.Disposable
    /\ ~r.Gravatar

\* C1: for an input without exactly one "@", or one that fails the pattern,
\* every boolean of the result is false and neither an MX lookup nor a
\* connection was made.
C1_SyntaxFailureAllFalse ==
    (Returned /\ ~SyntaxValid(email)) =>
        /\ AllBooleansFalse(result)
        /\ lookups = 0
        /\ probeCalls = 0
        /\ dials = 0
        /\ probe.conn = "none"

\* a rejected address with one "@" and a registry domain has been answered
C1_Witness ==
    /\ Returned
    /\ Count(email, "@") = 1
    /\ ~emailRegexMatch(email)
    /\ ToLower(DomainOf(email)) \in Range(disposableDomains)

\* C2: a syntactically valid address whose domain has no resolvable MX
\* records (every lookup failed or came back empty) gets hostExists = false
\* and deliverable = false, and no connection is attempted.
C2_NoMXNoHost ==
    (Returned /\ mx1 \in {"error", "empty"} /\ probe.answer = <<>>) =>
        /\ ~result.HostExists
        /\ ~result.Deliverable
        /\ dials = 0

\* C3: when the MX resolution succeeds, hostExists is true whatever the probe
\* does, the probe is called, and deliverable is the probe's outcome: false
\* for an unreachable server or a 550 to RCPT TO, true for a 250 to RCPT TO.
C3_HostExistsIndependentOfProbe ==
    (Returned /\ mx1 = "records") =>
        /\ result.HostExists
        /\ probeCalls = 1
        /\ result.Deliverable = probe.ret
        /\ (dials = 1 /\ probe.conn = "none") => ~result.Deliverable
        /\ (probe.rcptReply.kind = "code" /\ probe.rcptReply.code = 550) => ~result.Deliverable
        /\ (probe.rcptReply.kind = "code" /\ probe.rcptReply.code = 250) => result.Deliverable

\* a resolvable domain whose server answered 550 to RCPT TO
C3_Witness ==
    /\ Returned
    /\ mx1 = "records"
    /\ probe.rcptReply.kind = "code"
    /\ probe.rcptReply.code = 550
    /\ result.HostExists
    /\ ~result.Deliverable

\* C4 as stated: the probe returns true exactly when the reply to RCPT TO is
\* any 2xx code.
C4_Any2xxAccepted ==
    ProbeReturned =>
        (probe.ret <=> (probe.rcptReply.kind = "code" /\ probe.rcptReply.code \div 100 = 2))

\* C4 amended: the probe returns true exactly when the reply to RCPT TO is a
\* 25x code; every other reply, a dropped connection and a failure at an
\* earlier step make it return false.
C4_Only25xAccepted ==
    ProbeReturned =>
        (probe.ret <=> (probe.rcptReply.kind = "code" /\ probe.rcptReply.code \div 10 = 25))

\* the probe returned true on a 251
C4_Witness ==
    /\ ProbeReturned
    /\ probe.rcptReply.kind = "code"
    /\ probe.rcptReply.code = 251
    /\ probe.ret

\* C5: for a syntactically valid address, disposable is true exactly when the
\* lower-cased domain is an entry of the registry, whatever hostExists and
\* deliverable are.
C5_DisposableIffRegistryEntry ==
    (Returned /\ SyntaxValid(email)) =>
        (result.Disposable <=> (ToLower(DomainOf(email)) \in Range(disposableDomains)))

\* a mixed-case registry domain, on a host that exists and refuses the address
C5_Witness ==
    /\ Returned
    /\ SyntaxValid(email)
    /\ DomainOf(email) # ToLower(DomainOf(email))
    /\ result.Disposable
    /\ result.HostExists
    /\ ~result.Deliverable

\* C6: when the probe opened the transport connection, the connection has
\* been closed exactly once when the probe returns.
C6_ReleasedExactlyOnce ==
    (ProbeReturned /\ probe.conn # "none") =>
        /\ probe.conn = "closed"
        /\ probe.closes = 1

\* C7 as stated: whenever the domain of the result is not empty, disposable
\* is the registry lookup of that domain.
C7_DisposableWheneverDomainParsed ==
    (Returned /\ result.Domain # <<>>) =>
        (result.Disposable <=> isDisposableEmail(result.Domain))

\* C7 amended: whenever the domain of the result is not empty, disposable is
\* the registry lookup of that domain if the address passed the syntax check,
\* and false if it did not.
C7_DisposableWhenSyntaxValid ==
    (Returned /\ result.Domain # <<>>) =>
        (result.Disposable <=> (SyntaxValid(email) /\ isDisposableEmail(result.Domain)))

\* a valid address of a registry domain without MX records
C7_Witness ==
    /\ Returned
    /\ SyntaxValid(email)
    /\ result.Domain # <<>>
    /\ result.Disposable
    /\ ~result.HostExists

ProbeOrder == <<"Connect", "Greeting", "Sender", "Recipient">>

IsPrefix(s, t) == Len(s) <= Len(t) /\ s = SubSeq(t, 1, Len(s))

CmdRank(c) ==
    CASE c = "EHLO" -> 1
      [] c = "HELO" -> 2
      [] c = "MAIL" -> 3
      [] c = "RCPT" -> 4
      [] c = "QUIT" -> 5

\* C8: the steps of a probe are a prefix of Connect, Greeting, Sender,
\* Recipient, every step but the last taken has succeeded, and on the wire
\* nothing is written without a connection, MAIL FROM only after an accepted
\* greeting, RCPT TO only after an accepted MAIL FROM, each command once.
C8_StepsInOrder ==
    /\ IsPrefix(probe.steps, ProbeOrder)
    /\ IsPrefix(probe.succeeded, probe.steps)
    /\ Len(probe.steps) <= Len(probe.succeeded) + 1
    /\ probe.conn = "none" => probe.cmds = <<>>
    /\ \A i \in 1..Len(probe.cmds) : \A j \in 1..Len(probe.cmds) :
          i < j => CmdRank(probe.cmds[i]) < CmdRank(probe.cmds[j])
    /\ "MAIL" \in Range(probe.cmds) => "Greeting" \in Range(probe.succeeded)
    /\ "RCPT" \in Range(probe.cmds) => "Sender" \in Range(probe.succeeded)

\* a probe whose greeting was refused twice has returned
C8_Witness ==
    /\ ProbeReturned
    /\ probe.helloError
    /\ probe.steps = <<"Connect", "Greeting">>
    /\ "HELO" \in Range(probe.cmds)

\* the record of the answer with the lowest priority value
MostPreferred(answer) ==
    CHOOSE r \in Range(answer) : \A q \in Range(answer) : r.Pref <= q.Pref

\* C9: one call dials at most once, the host dialled is the exchanger with
\* the lowest priority value of the answer, and a call whose probe failed
\* after dialling returns deliverable = false without a second dial.
C9_SingleMostPreferredExchanger ==
    /\ dials <= 1
    /\ dials = 1 => Append(probe.mxHost, ".") = MostPreferred(probe.answer).Host
    /\ (Returned /\ dials = 1 /\ "Recipient" \notin Range(probe.succeeded)) =>
          ~result.Deliverable

\* the answer came as 20, 10, 30 and the probe failed against the host of 10
C9_Witness ==
    /\ Returned
    /\ dials = 1
    /\ Len(probe.answer) = 3
    /\ probe.answer[1].Pref = 20
    /\ probe.answer[2].Pref = 10
    /\ probe.answer[3].Pref = 30
    /\ ~result.Deliverable

\* C10: every call of validateEmail returns, also when the server accepts
\* the connection and then sends nothing.
C10_EveryCallReturns == (pc = "start") ~> (pc = "done")

====
